---- MODULE Spec2Model ----
(***************************************************************************)
(* Model of langchain/retrievers/svm.py: create_index (concurrent          *)
(* embedding on a ThreadPoolExecutor), retrieve (LinearSVC scores, argsort, *)
(* tie-break swap, normalisation) and SVMRetriever (from_texts,            *)
(* get_relevant_documents).                                                *)
(*                                                                         *)
(* Python lists and numpy arrays are functions over 0..len-1, so that row  *)
(* and index arithmetic reads as in the source.  An Optional value is a     *)
(* sequence of length 0 (None) or 1.                                       *)
(***************************************************************************)
EXTENDS Integers, Sequences, FiniteSets, TLC

\* ---------------------------------------------------------------- bounds
MaxN == 2
MaxK == 2
MantBits == 3
MaxTol == 2

\* ------------------------------------------------------ program constants
\* ThreadPoolExecutor(): max_workers defaults to min(32, cpu_count + 4), which
\* is at least 5
MaxWorkers == 5
\* SVMRetriever.k
DefaultK == 4
\* retrieve(max_iter=10000)
DefaultMaxIter == 10000
\* retrieve(tol=1e-6); scores and tol are counted in units of 1e-6
DefaultTol == 1
\* retrieve(C=0.1), counted in tenths
DefaultC == 1

NoneOpt == <<>>
Some(v) == <<v>>
IsNone(o) == Len(o) = 0
Val(o) == o[1]

\* ------------------------------------------------------------ the inputs
Corpus == <<"cat", "dog", "car engine repair", "cow">>
Queries == {"cat"}

\* the passage lists handed to from_texts: the first n passages of Corpus
TextLists == { [i \in 0..(n - 1) |-> Corpus[i + 1]] : n \in 1..MaxN }

Half == [num |-> 1, den |-> 2]
One == [num |-> 1, den |-> 1]
Zero == [num |-> 0, den |-> 1]

\* keyword arguments of from_texts; an absent keyword is NoneOpt
CustomHyper == [max_iter |-> Some(50), tol |-> Some(2), C |-> Some(10)]
NoHyper == [max_iter |-> NoneOpt, tol |-> NoneOpt, C |-> NoneOpt]
KwargsSet ==
    { [k |-> kk, relevancy_threshold |-> th,
       max_iter |-> h.max_iter, tol |-> h.tol, C |-> h.C] :
        kk \in {NoneOpt} \cup { Some(n) : n \in 0..MaxK },
        th \in {NoneOpt, Some(Half)},
        h \in {NoHyper, CustomHyper} }

\* Embeddings.embed_query: the external embedder, a stub that gives every
\* passage of Corpus its own vector
CorpusPos(t) == CHOOSE i \in 1..Len(Corpus) : Corpus[i] = t
embed_query(t) == <<CorpusPos(t), CorpusPos(t) * CorpusPos(t)>>
EmbedError(t) == [type |-> "EmbedError", text |-> t]

Size(a) == Cardinality(DOMAIN a)

VARIABLES
    pc,          \* where the caller is: idle, map, exit, ready, failed
    contexts,    \* create_index: the texts being embedded
    kwargs,      \* from_texts: **kwargs
    futures,     \* executor.map: one future per text, in input order
    gathered,    \* list(...): the results yielded so far
    calls,       \* how many times embed_query ran for each text
    overtaken,   \* history of the running build: a call completed while the call
                 \* of an earlier text was still running
    exc,         \* the exception travelling up through the with block
    raised,      \* the exception from_texts raised to its caller
    retriever,   \* the SVMRetriever instance, once constructed
    query,       \* the query of the last call
    clf,         \* the hyperparameters LinearSVC was built with
    similarities,\* clf.decision_function(x), one score per row of x
    argsorted,   \* np.argsort(-similarities), before the swap
    sorted_ix,   \* the order retrieve returns
    denominator, \* max - min + tol
    normalized,  \* normalized_similarities
    rows,        \* the rows of sorted_ix[1 : k + 1] that passed the filter
    top_k_results, \* the list get_relevant_documents returns
    same_order   \* history: the last two calls had the same argsort result

buildVars == <<contexts, kwargs, futures, gathered, calls, overtaken, exc, raised,
              retriever>>
queryVars == <<query, clf, similarities, argsorted, sorted_ix, denominator,
               normalized, rows, top_k_results, same_order>>

Pending == [state |-> "PENDING", result |-> NoneOpt, exception |-> NoneOpt]

\* cls(embeddings=..., index=..., texts=..., **kwargs): pydantic keeps the
\* declared fields and their defaults; undeclared keywords are dropped
SVMRetriever_NoKwargs(index, texts, kw) ==
    [index |-> index, texts |-> texts, k |-> DefaultK,
     relevancy_threshold |-> NoneOpt]
SVMRetriever(index, texts, kw) ==
    [index |-> index, texts |-> texts,
     k |-> IF IsNone(kw.k) THEN DefaultK ELSE Val(kw.k),
     relevancy_threshold |-> kw.relevancy_threshold]

\* from_texts calls create_index; executor.map submits one call per text
FromTexts(texts, kw) ==
    /\ pc = "idle"
    /\ pc' = "map"
    /\ contexts' = texts
    /\ kwargs' = kw
    /\ futures' = [i \in DOMAIN texts |-> Pending]
    /\ gathered' = <<>>
    /\ calls' = [i \in DOMAIN texts |-> 0]
    /\ overtaken' = FALSE
    /\ UNCHANGED <<exc, raised, retriever, queryVars>>

Running == { i \in DOMAIN futures : futures[i].state = "RUNNING" }
Queued == { i \in DOMAIN futures : futures[i].state = "PENDING" }

\* a pool thread takes the oldest queued work item (the queue is FIFO) and
\* starts embed_query on it
WorkerRun(i) ==
    /\ pc \in {"map", "exit"}
    /\ i \in Queued
    /\ \A j \in Queued : i <= j
    /\ Cardinality(Running) < MaxWorkers
    /\ futures' = [futures EXCEPT ![i].state = "RUNNING"]
    /\ calls' = [calls EXCEPT ![i] = @ + 1]
    /\ UNCHANGED overtaken
    /\ UNCHANGED <<pc, contexts, kwargs, gathered, exc, raised, retriever, queryVars>>

\* embed_query returns: the future holds the vector
EmbedReturns(i) ==
    /\ pc \in {"map", "exit"}
    /\ i \in Running
    /\ futures' = [futures EXCEPT ![i] =
                     [state |-> "FINISHED",
                      result |-> Some(embed_query(contexts[i])),
                      exception |-> NoneOpt]]
    /\ overtaken' = (overtaken \/ \E j \in Running : j < i)
    /\ UNCHANGED <<pc, contexts, kwargs, gathered, calls, exc, raised, retriever, queryVars>>

\* embed_query raises: the future holds the exception
EmbedRaises(i) ==
    /\ pc \in {"map", "exit"}
    /\ i \in Running
    /\ futures' = [futures EXCEPT ![i] =
                     [state |-> "FINISHED",
                      result |-> NoneOpt,
                      exception |-> Some(EmbedError(contexts[i]))]]
    /\ overtaken' = (overtaken \/ \E j \in Running : j < i)
    /\ UNCHANGED <<pc, contexts, kwargs, gathered, calls, exc, raised, retriever, queryVars>>

\* the future list(...) waits on next: map yields futures in input order
Ungathered ==
    { i \in DOMAIN futures :
        /\ futures[i].state = "FINISHED"
        /\ ~IsNone(futures[i].result)
        /\ \A p \in 1..Len(gathered) : gathered[p] # Val(futures[i].result) }
NextFuture_ByCompletion ==
    IF Ungathered # {}
    THEN CHOOSE i \in Ungathered : \A j \in Ungathered : i >= j
    ELSE Len(gathered)
NextFuture == Len(gathered)

\* list(executor.map(...)) takes the result of the next future once it has
\* finished; after the last one the with block is left
Gather ==
    /\ pc = "map"
    /\ LET j == NextFuture IN
        /\ j \in DOMAIN futures
        /\ futures[j].state = "FINISHED"
        /\ ~IsNone(futures[j].result)
        /\ gathered' = Append(gathered, Val(futures[j].result))
        /\ pc' = IF Len(gathered') = Size(contexts) THEN "exit" ELSE "map"
    /\ UNCHANGED <<contexts, kwargs, futures, calls, overtaken, exc, raised, retriever,
                 queryVars>>

\* the next future finished with an exception: result() re-raises it, the
\* generator's finally cancels the futures not yet started, and the
\* exception leaves list(...)
CancelRest(fs) ==
    [i \in DOMAIN fs |->
        IF fs[i].state = "PENDING" THEN [fs[i] EXCEPT !.state = "CANCELLED"]
        ELSE fs[i]]

GatherRaises_Skip ==
    /\ pc = "map"
    /\ LET j == NextFuture IN
        /\ j \in DOMAIN futures
        /\ futures[j].state = "FINISHED"
        /\ ~IsNone(futures[j].exception)
    /\ gathered' = Append(gathered, <<0, 0>>)
    /\ pc' = IF Len(gathered') = Size(contexts) THEN "exit" ELSE "map"
    /\ UNCHANGED <<contexts, kwargs, futures, calls, overtaken, exc, raised, retriever,
                   queryVars>>
GatherRaises ==
    /\ pc = "map"
    /\ LET j == NextFuture IN
        /\ j \in DOMAIN futures
        /\ futures[j].state = "FINISHED"
        /\ ~IsNone(futures[j].exception)
        /\ exc' = futures[j].exception
    /\ futures' = CancelRest(futures)
    /\ pc' = "exit"
    /\ UNCHANGED <<contexts, kwargs, gathered, calls, overtaken, raised, retriever,
                 queryVars>>

\* np.array(list(...)): row i of the index is the i-th gathered result
np_array(results) == [i \in 0..(Len(results) - 1) |-> results[i + 1]]

\* leaving the with block joins the pool (shutdown(wait=True)); then either
\* the exception reaches the caller of from_texts, or create_index returns
\* the matrix and from_texts constructs the retriever
ExitPool ==
    /\ pc = "exit"
    /\ Running = {}
    /\ Queued = {}
    /\ IF IsNone(exc)
       THEN /\ retriever' = Some(SVMRetriever(np_array(gathered), contexts, kwargs))
            /\ raised' = NoneOpt
            /\ pc' = "ready"
       ELSE /\ raised' = exc
            /\ retriever' = NoneOpt
            /\ pc' = "failed"
    /\ overtaken' = FALSE
    /\ UNCHANGED <<contexts, kwargs, futures, gathered, calls, exc, queryVars>>

\* ------------------------------------------------------------- retrieve
\* float64 arithmetic, scaled down to MantBits bits of mantissa: a result
\* is rounded to the nearest representable value, ties to even
RECURSIVE Pow2(_)
Pow2(n) == IF n = 0 THEN 1 ELSE 2 * Pow2(n - 1)

RECURSIVE UlpFrom(_, _)
UlpFrom(n, u) == IF n < Pow2(MantBits) * u THEN u ELSE UlpFrom(n, 2 * u)
Ulp(n) == UlpFrom(n, 1)

\* the integer nearest to n / d, ties to even
RoundDiv(n, d) ==
    LET q == n \div d
        r == n % d
    IN  IF 2 * r < d THEN q
        ELSE IF 2 * r > d THEN q + 1
        ELSE IF q % 2 = 0 THEN q ELSE q + 1

Round(n) == RoundDiv(n, Ulp(n)) * Ulp(n)

\* a - b for a >= b, and a + b for a, b >= 0
FSub(a, b) == Round(a - b)
FAdd(a, b) == Round(a + b)

\* a / b for 0 <= a <= b: a value num / den with a power of two as den
RECURSIVE ScaleFrom(_, _, _)
ScaleFrom(a, b, s) ==
    IF a * s >= b * Pow2(MantBits - 1) THEN s ELSE ScaleFrom(a, b, 2 * s)
FDiv(a, b) ==
    IF a = 0 THEN Zero
    ELSE LET s == ScaleFrom(a, b, 1)
         IN  [num |-> RoundDiv(a * s, b), den |-> s]

\* x >= y and x < y on such values
Ge(x, y) == x.num * y.den >= y.num * x.den
Lt(x, y) == ~Ge(x, y)
Eq(x, y) == x.num * y.den = y.num * x.den

\* the decision scores LinearSVC may give a row: signed, and far enough
\* apart that max - min reaches the first value at which adding tol is lost
BigScore == Pow2(MantBits) - 1
ScoreVals == {-1, 0, BigScore}

MaxOf(a) == CHOOSE m \in { a[i] : i \in DOMAIN a } : \A i \in DOMAIN a : a[i] <= m
MinOf(a) == CHOOSE m \in { a[i] : i \in DOMAIN a } : \A i \in DOMAIN a : m <= a[i]

Perms(n) ==
    { p \in [0..n -> 0..n] : \A i, j \in 0..n : i # j => p[i] # p[j] }

\* np.argsort(-similarities): a descending order of the rows; the order of
\* rows with equal scores is whatever the sort leaves
IsArgsort(order, sims) ==
    \A p \in DOMAIN order :
        (p + 1) \in DOMAIN order => sims[order[p]] >= sims[order[p + 1]]

\* what fit, decision_function and argsort may leave for an index of n rows:
\* the scores of the n + 1 rows and a descending order of them
Outcomes ==
    [n \in 1..MaxN |->
        { o \in [sims : [0..n -> ScoreVals], order : Perms(n)] :
            IsArgsort(o.order, o.sims) }]
OutcomesFor(n) == IF n \in DOMAIN Outcomes THEN Outcomes[n] ELSE {}

\* lines 44-46: the position of row 0, and the swap that puts row 0 first
ZeroIndex(order) == CHOOSE p \in DOMAIN order : order[p] = 0

TieBreakSwap_None(order) == order
TieBreakSwap_Rotate(order) ==
    [p \in DOMAIN order |->
        IF p = 0 THEN 0
        ELSE IF p <= ZeroIndex(order) THEN order[p - 1]
        ELSE order[p]]
TieBreakSwap(order) ==
    LET zero_index == ZeroIndex(order)
    IN  IF zero_index # 0
        THEN [order EXCEPT ![0] = order[zero_index], ![zero_index] = order[0]]
        ELSE order

\* line 47
Denominator_NoTol(sims, tol) == FSub(MaxOf(sims), MinOf(sims))
Denominator(sims, tol) == FAdd(FSub(MaxOf(sims), MinOf(sims)), tol)

\* line 48
Normalize(sims, denom) ==
    [i \in DOMAIN sims |-> FDiv(FSub(sims[i], MinOf(sims)), denom)]

\* line 74: retrieve(query_embeds, self.index) passes no hyperparameter, so
\* max_iter, tol and C take the defaults of retrieve's signature
HyperDefaults == [max_iter |-> DefaultMaxIter, tol |-> DefaultTol, C |-> DefaultC]

\* the hyperparameters a direct caller of retrieve may pass
HyperSet ==
    {HyperDefaults} \cup { [max_iter |-> 50, tol |-> t, C |-> 10] : t \in 1..MaxTol }

\* one call of retrieve(query_embeds, index, max_iter, tol, C) on an index of
\* n rows: LinearSVC gives the n + 1 rows the scores sims
Retrieve(n, hyper, sims, order) ==
    /\ pc = "idle"
    /\ IsArgsort(order, sims)
    /\ clf' = Some(hyper)
    /\ similarities' = sims
    /\ argsorted' = order
    /\ sorted_ix' = TieBreakSwap(order)
    /\ denominator' = Denominator(sims, hyper.tol)
    /\ normalized' = Normalize(sims, denominator')
    /\ UNCHANGED <<pc, buildVars, query, rows, top_k_results, same_order>>

\* ---------------------------------------------- get_relevant_documents
\* a[lo : hi] for 0 <= lo, 0 <= hi, as a sequence
PySlice(a, lo, hi) ==
    LET top == IF hi < Size(a) THEN hi ELSE Size(a)
    IN  [p \in 1..(IF top > lo THEN top - lo ELSE 0) |-> a[lo + p - 1]]

\* a[i], where a negative i counts from the end
PyIndex(a, i) == IF i < 0 THEN a[Size(a) + i] ELSE a[i]

Document(text) == [page_content |-> text]

\* line 76
TopSlice_FromZero(order, k) == PySlice(order, 0, k + 1)
TopSlice(order, k) == PySlice(order, 1, k + 1)

\* lines 77-80
Keeps_Strict(thr, norm, row) ==
    IsNone(thr) \/ (Ge(norm[row], Val(thr)) /\ ~Eq(norm[row], Val(thr)))
Keeps_DefaultHalf(thr, norm, row) ==
    Ge(norm[row], IF IsNone(thr) THEN Half ELSE Val(thr))
Keeps(thr, norm, row) ==
    IsNone(thr) \/ Ge(norm[row], Val(thr))

\* the rows for which line 81 appends a document
KeptRows(order, norm, k, thr) ==
    SelectSeq(TopSlice(order, k), LAMBDA row : Keeps(thr, norm, row))

\* line 81
Documents(kept, texts) ==
    [p \in 1..Len(kept) |-> Document(PyIndex(texts, kept[p] - 1))]

\* one call of get_relevant_documents: the embedder returns, LinearSVC gives
\* the rows the scores sims, argsort leaves the rows in the order `order`
GetRelevantDocuments(q, sims, order) ==
    /\ pc = "ready"
    /\ IsArgsort(order, sims)
    /\ clf' = Some(HyperDefaults)
    /\ similarities' = sims
    /\ argsorted' = order
    /\ sorted_ix' = TieBreakSwap(order)
    /\ denominator' = Denominator(sims, Val(clf').tol)
    /\ normalized' = Normalize(sims, denominator')
    /\ rows' = KeptRows(sorted_ix', normalized', Val(retriever).k,
                        Val(retriever).relevancy_threshold)
    /\ top_k_results' = Documents(rows', Val(retriever).texts)
    /\ query' = Some(q)
    /\ same_order' = (query = Some(q) /\ argsorted = order)
    /\ raised' = NoneOpt
    /\ UNCHANGED <<pc, contexts, kwargs, futures, gathered, calls, overtaken, exc,
                 retriever>>

\* one call of get_relevant_documents in which embed_query raises: the
\* exception reaches the caller and nothing is ranked
GetRelevantDocumentsRaises(q) ==
    /\ pc = "ready"
    /\ raised' = Some(EmbedError(q))
    /\ query' = NoneOpt
    /\ clf' = NoneOpt
    /\ similarities' = <<>>
    /\ argsorted' = <<>>
    /\ sorted_ix' = <<>>
    /\ denominator' = 0
    /\ normalized' = <<>>
    /\ rows' = <<>>
    /\ top_k_results' = <<>>
    /\ same_order' = FALSE
    /\ UNCHANGED <<pc, contexts, kwargs, futures, gathered, calls, overtaken, exc,
                 retriever>>

vars == <<pc, buildVars, queryVars>>

Init ==
    /\ pc = "idle"
    /\ contexts = <<>>
    /\ kwargs = [k |-> NoneOpt, relevancy_threshold |-> NoneOpt,
                 max_iter |-> NoneOpt, tol |-> NoneOpt, C |-> NoneOpt]
    /\ futures = <<>>
    /\ gathered = <<>>
    /\ calls = <<>>
    /\ overtaken = FALSE
    /\ exc = NoneOpt
    /\ raised = NoneOpt
    /\ retriever = NoneOpt
    /\ query = NoneOpt
    /\ clf = NoneOpt
    /\ similarities = <<>>
    /\ argsorted = <<>>
    /\ sorted_ix = <<>>
    /\ denominator = 0
    /\ normalized = <<>>
    /\ rows = <<>>
    /\ top_k_results = <<>>
    /\ same_order = FALSE

Next ==
    \/ \E texts \in TextLists, kw \in KwargsSet : FromTexts(texts, kw)
    \/ \E i \in DOMAIN futures : WorkerRun(i)
    \/ \E i \in DOMAIN futures : EmbedReturns(i)
    \/ \E i \in DOMAIN futures : EmbedRaises(i)
    \/ Gather
    \/ GatherRaises
    \/ ExitPool
    \/ \E q \in Queries, o \in OutcomesFor(Size(contexts)) :
          GetRelevantDocuments(q, o.sims, o.order)
    \/ \E q \in Queries : GetRelevantDocumentsRaises(q)

Spec == Init /\ [][Next]_vars

\* retrieve called on its own, with any hyperparameters
NextRetrieve ==
    \E n \in 1..MaxN, hyper \in HyperSet :
        \E o \in OutcomesFor(n) : Retrieve(n, hyper, o.sims, o.order)

SpecRetrieve == Init /\ [][NextRetrieve]_vars

\* ================================================================ claims
Ranked == ~IsNone(query)
Retrieved == ~IsNone(clf)
Self == Val(retriever)
Range(seq) == { seq[p] : p \in 1..Len(seq) }
NoRepeats(seq) == \A p, r \in 1..Len(seq) : p # r => seq[p] # seq[r]

C2_QueryRowExcluded ==
    Ranked =>
        /\ \A r \in Range(TopSlice(sorted_ix, Self.k)) : r \in 1..Size(Self.texts)
        /\ Len(top_k_results) = Len(rows)
        /\ \A p \in 1..Len(rows) :
              /\ rows[p] \in 1..Size(Self.texts)
              /\ top_k_results[p] = Document(Self.texts[rows[p] - 1])
        /\ NoRepeats(rows)

C2_Witness ==
    /\ Ranked
    /\ argsorted[0] # 0
    /\ Len(rows) = 2

\* C3: the returned documents are in descending order of raw decision score.
C3_ScoreDescending ==
    Ranked =>
        \A p, r \in 1..Len(rows) :
            p < r => similarities[rows[p]] >= similarities[rows[r]]

C5_NormalizedBelowOne ==
    Retrieved =>
        /\ denominator > 0
        /\ \A i \in DOMAIN normalized :
              /\ Ge(normalized[i], Zero)
              /\ Lt(normalized[i], One)
              /\ similarities[i] = MinOf(similarities) => Eq(normalized[i], Zero)

\* C5 (amended): the denominator is positive, every normalized score is in
\* [0, 1], the row of minimum score gets 0, and every normalized score is
\* below 1 whenever adding tol changed the rounded value of max - min; when
\* it did not, the row of maximum score gets exactly 1.
C5_NormalizedInUnitInterval ==
    Retrieved =>
        /\ denominator > 0
        /\ \A i \in DOMAIN normalized :
              /\ Ge(normalized[i], Zero)
              /\ Ge(One, normalized[i])
              /\ similarities[i] = MinOf(similarities) => Eq(normalized[i], Zero)
              /\ denominator > FSub(MaxOf(similarities), MinOf(similarities))
                    => Lt(normalized[i], One)
              /\ (/\ denominator = FSub(MaxOf(similarities), MinOf(similarities))
                  /\ similarities[i] = MaxOf(similarities))
                    => Eq(normalized[i], One)

C5_Witness ==
    /\ Retrieved
    /\ Val(clf).tol = 2
    /\ denominator > FSub(MaxOf(similarities), MinOf(similarities))
    /\ \E i \in DOMAIN normalized :
          /\ similarities[i] = MaxOf(similarities)
          /\ Lt(Zero, normalized[i])
          /\ Lt(normalized[i], One)
    /\ \E i \in DOMAIN normalized : Eq(normalized[i], Zero)

\* C6: for the ranking of the last call, a higher threshold keeps a
\* sub-sequence of what a lower one keeps; a taken row is kept exactly when
\* its normalized score is >= the threshold; without a threshold every taken
\* row is kept.  The rows the call kept are those of the configured threshold.
Thresholds == {Zero, [num |-> 1, den |-> 4], Half, [num |-> 7, den |-> 8], One}

RECURSIVE IsSubSeq(_, _)
IsSubSeq(s, t) ==
    IF s = <<>> THEN TRUE
    ELSE IF t = <<>> THEN FALSE
    ELSE IF Head(s) = Head(t) THEN IsSubSeq(Tail(s), Tail(t))
    ELSE IsSubSeq(s, Tail(t))

C6_ThresholdMonotone ==
    Ranked =>
        LET taken == TopSlice(sorted_ix, Self.k)
            kept(thr) == KeptRows(sorted_ix, normalized, Self.k, thr)
        IN  /\ rows = kept(Self.relevancy_threshold)
            /\ kept(NoneOpt) = taken
            /\ \A t \in Thresholds :
                  /\ IsSubSeq(kept(Some(t)), taken)
                  /\ \A r \in Range(taken) :
                        r \in Range(kept(Some(t))) <=> Ge(normalized[r], t)
            /\ \A t1, t2 \in Thresholds :
                  Ge(t2, t1) =>
                     /\ IsSubSeq(kept(Some(t2)), kept(Some(t1)))
                     /\ Len(kept(Some(t2))) <= Len(kept(Some(t1)))

C6_Witness ==
    /\ Ranked
    /\ Self.relevancy_threshold = Some(Half)
    /\ Len(TopSlice(sorted_ix, Self.k)) = 2
    /\ Len(rows) = 1
    /\ Eq(normalized[rows[1]], Half)

\* C7: an index that create_index returned has one row per text, row i is the
\* embedding of texts[i], every text was embedded exactly once and no call is
\* still running or queued; while the build runs, what list(...) has gathered
\* is the embeddings of the first texts, in input order.
C7_IndexInInputOrder ==
    /\ \A i \in DOMAIN calls : calls[i] <= 1
    /\ \A p \in 1..Len(gathered) : gathered[p] = embed_query(contexts[p - 1])
    /\ pc = "ready" =>
          /\ DOMAIN Self.index = DOMAIN Self.texts
          /\ Self.texts = contexts
          /\ \A i \in DOMAIN Self.index : Self.index[i] = embed_query(Self.texts[i])
          /\ \A i \in DOMAIN calls : calls[i] = 1
          /\ \A i \in DOMAIN futures : futures[i].state = "FINISHED"
    /\ pc \in {"ready", "failed"} => Running = {} /\ Queued = {}

C7_Witness ==
    /\ pc = "exit"
    /\ overtaken
    /\ IsNone(exc)
    /\ Running = {}
    /\ np_array(gathered) = [i \in 0..1 |-> embed_query(contexts[i])]

\* C8: when an embedding call of the build failed, from_texts has raised that
\* call's error (the first failed call in input order), there is no retriever
\* and no index; a retriever exists only when no call failed.
Failed == { i \in DOMAIN futures : ~IsNone(futures[i].exception) }

C8_BuildFailsOnError ==
    /\ pc = "ready" => Failed = {}
    /\ ~IsNone(retriever) => Failed = {}
    /\ (pc \in {"ready", "failed"} /\ Failed # {}) =>
          /\ pc = "failed"
          /\ IsNone(retriever)
          /\ \E i \in Failed :
                /\ raised = Some(EmbedError(contexts[i]))
                /\ \A j \in Failed : i <= j

C8_Witness ==
    /\ pc = "failed"
    /\ Size(contexts) = 2
    /\ Failed = {1}
    /\ ~IsNone(futures[0].result)
    /\ raised = Some(EmbedError(contexts[1]))

\* C9 (as stated): every query ranks with the max_iter, tol and C given at
\* construction (the defaults when not given) and truncates and filters with
\* the k and relevancy_threshold given at construction.
OrDefault(opt, default) == IF IsNone(opt) THEN default ELSE Val(opt)
Configured ==
    [max_iter |-> OrDefault(kwargs.max_iter, DefaultMaxIter),
     tol |-> OrDefault(kwargs.tol, DefaultTol),
     C |-> OrDefault(kwargs.C, DefaultC)]

C9_ConfiguredValuesUsed ==
    Ranked =>
        /\ clf = Some(Configured)
        /\ denominator = Denominator(similarities, Configured.tol)
        /\ Self.k = OrDefault(kwargs.k, DefaultK)
        /\ Self.relevancy_threshold = kwargs.relevancy_threshold

\* C9 (amended): the retriever takes k and relevancy_threshold at
\* construction (defaults 4 and none) and every query truncates and filters
\* with them; max_iter, tol and C given at construction are dropped, and every
\* query fits and normalizes with retrieve's defaults 10000, 1e-6 and 0.1.
C9_DeclaredFieldsUsed ==
    /\ pc = "ready" =>
          /\ Self.k = OrDefault(kwargs.k, DefaultK)
          /\ Self.relevancy_threshold = kwargs.relevancy_threshold
    /\ Ranked =>
          /\ clf = Some(HyperDefaults)
          /\ denominator = Denominator(similarities, DefaultTol)
          /\ rows = KeptRows(sorted_ix, normalized, OrDefault(kwargs.k, DefaultK),
                             kwargs.relevancy_threshold)

C9_Witness ==
    /\ Ranked
    /\ kwargs.tol = Some(2)
    /\ kwargs.k = Some(1)
    /\ kwargs.relevancy_threshold = Some(Half)
    /\ Len(rows) = 1

\* C10: the sorted_ix retrieve returns is a permutation of the rows 0..N with
\* row 0 first; it is the argsort result with positions 0 and z exchanged,
\* where z is the position row 0 sorted at.
C10_SingleSwap ==
    Retrieved =>
        LET z == ZeroIndex(argsorted) IN
        /\ DOMAIN sorted_ix = DOMAIN similarities
        /\ { sorted_ix[p] : p \in DOMAIN sorted_ix } = DOMAIN similarities
        /\ sorted_ix[0] = 0
        /\ IsArgsort(argsorted, similarities)
        /\ \A p \in DOMAIN sorted_ix :
              sorted_ix[p] = IF p = 0 THEN 0
                             ELSE IF p = z THEN argsorted[0]
                             ELSE argsorted[p]

C10_Witness ==
    /\ Retrieved
    /\ Size(sorted_ix) = 3
    /\ ZeroIndex(argsorted) = 2
    /\ sorted_ix[2] = argsorted[0]
    /\ sorted_ix[1] = argsorted[1]

====
